---- MODULE Spec2Model ----
(***************************************************************************)
(* The virtio PCI transport (vm-virtio/src/transport/pci_device.rs):       *)
(* register-region dispatch of BAR reads and writes, the ISR aggregator,   *)
(* the activation/reset state machine and the hand-over of the interrupt   *)
(* and queue notification EventFds between the transport and the device.   *)
(*                                                                         *)
(* EventFds are modelled by their identity (a positive integer); None is   *)
(* the empty Option.  The pluggable VirtioDevice, the Queue and the        *)
(* common-config register view are collaborators whose code is outside     *)
(* pci_device.rs; they are modelled by their contract.                     *)
(***************************************************************************)
EXTENDS Integers, Sequences, FiniteSets, TLC

VARIABLES
    common_config,     \* [driver_status, queue_select]
    device_activated,  \* bool
    interrupt_status,  \* Arc<AtomicUsize>, the shared aggregator
    interrupt_evt,     \* Option<EventFd>
    queues,            \* Vec<Queue>
    queue_evts,        \* Vec<EventFd>
    memory,            \* Option<GuestMemoryMmap>
    settings_bar,      \* u8
    configuration,     \* PciConfiguration: [bars, caps, irq_line]
    device,            \* what the VirtioDevice holds: [interrupt_evt, queue_evts]
    allocator,         \* SystemAllocator: the ranges handed out so far
    halted,            \* the process has panicked (expect() on activate)
    alloc_ret,         \* what the last allocate_bars returned
    irq_count,         \* number of assign_irq calls so far
    returned,          \* the signals device.reset() returned since the last activate()
    last               \* the last operation and the device entry points it invoked

vars == <<common_config, device_activated, interrupt_status, interrupt_evt,
          queues, queue_evts, memory, settings_bar, configuration, device,
          allocator, halted, alloc_ret, irq_count, returned, last>>

None == 0

(***************************************************************************)
(* Bounds of the model.                                                    *)
(***************************************************************************)
MaxIrqAssign == 2
MaxAllocCalls == 1

(***************************************************************************)
(* Program constants.                                                      *)
(***************************************************************************)
COMMON_CONFIG_BAR_OFFSET == 0
COMMON_CONFIG_SIZE == 56
ISR_CONFIG_BAR_OFFSET == 4096
ISR_CONFIG_SIZE == 1
DEVICE_CONFIG_BAR_OFFSET == 8192
DEVICE_CONFIG_SIZE == 4096
NOTIFICATION_BAR_OFFSET == 12288
NOTIFICATION_SIZE == 4096
CAPABILITY_BAR_SIZE == 16384
NOTIFY_OFF_MULTIPLIER == 4

DEVICE_INIT == 0
DEVICE_ACKNOWLEDGE == 1
DEVICE_DRIVER == 2
DEVICE_FEATURES_OK == 4
DEVICE_DRIVER_OK == 8
DEVICE_FAILED == 128

U8 == 256

(***************************************************************************)
(* Bit operations on naturals.                                             *)
(***************************************************************************)
RECURSIVE BitAnd(_, _)
BitAnd(a, b) ==
    IF a = 0 \/ b = 0 THEN 0
    ELSE (a % 2) * (b % 2) + 2 * BitAnd(a \div 2, b \div 2)

BitOr(a, b) == a + b - BitAnd(a, b)

\* s & !v
AndNot(s, v) == s - BitAnd(s, v)

\* x as u8
AsU8(x) == x % U8

(***************************************************************************)
(* The device under the transport.                                         *)
(***************************************************************************)
\* device.queue_max_sizes(): two queues
queue_max_sizes == <<2, 2>>

NumQueues == Len(queue_max_sizes)

\* device.get_device_bars(): one device-specific BAR, its register index and size
get_device_bars == <<[idx |-> 2, size |-> 4096]>>

\* Queue::new(max_size)
Queue_new(max) == [max_size |-> max, size |-> max, ready |-> FALSE]

\* Queue::reset
Queue_reset(q) == [q EXCEPT !.ready = FALSE, !.size = q.max_size]

\* Queue::is_valid(mem): enabled, with a size the ring can have
Queue_is_valid(q, mem) ==
    /\ q.ready
    /\ q.size \in {1, 2, 4, 8}
    /\ q.size <= q.max_size

\* The device before activate() and after a successful reset()
DeviceIdle == [interrupt_evt |-> None, queue_evts |-> <<>>]

(***************************************************************************)
(* The transport's state as one record, so that the steps of a handler     *)
(* compose.  activate and reset record the device entry points the         *)
(* handler invoked.                                                        *)
(***************************************************************************)
Cur ==
    [driver_status    |-> common_config.driver_status,
     queue_select     |-> common_config.queue_select,
     device_activated |-> device_activated,
     interrupt_status |-> interrupt_status,
     interrupt_evt    |-> interrupt_evt,
     queues           |-> queues,
     queue_evts       |-> queue_evts,
     memory           |-> memory,
     device           |-> device,
     halted           |-> FALSE,
     activate         |-> "none",
     reset            |-> "none"]

\* is_driver_ready testing the ready bits under a mask
is_driver_ready_masked(driver_status) ==
    BitAnd(driver_status, 15) = 15

\* is_driver_ready with FEATURES_OK left out of the ready bits
is_driver_ready_no_features(driver_status) ==
    driver_status = 11

\* is_driver_ready
is_driver_ready(driver_status) ==
    LET ready_bits == AsU8(BitOr(BitOr(DEVICE_ACKNOWLEDGE, DEVICE_DRIVER),
                                 BitOr(DEVICE_DRIVER_OK, DEVICE_FEATURES_OK)))
    IN  /\ driver_status = ready_bits
        /\ BitAnd(driver_status, AsU8(DEVICE_FAILED)) = 0

\* INIT taken as any status without the FAILED bit
is_driver_init_not_failed(driver_status) ==
    BitAnd(driver_status, 128) = 0

\* is_driver_init
is_driver_init(driver_status) == driver_status = AsU8(DEVICE_INIT)

\* are_queues_valid
are_queues_valid(mem, qs) ==
    IF mem # None
    THEN \A i \in DOMAIN qs : Queue_is_valid(qs[i], mem)
    ELSE FALSE

\* A clone of the vector handed out instead of its tail
split_off_clone(v, at) ==
    [kept |-> v, off |-> v]

\* Vec::split_off(at): the tail is returned, the head stays
split_off(v, at) ==
    [kept |-> SubSeq(v, 1, at), off |-> SubSeq(v, at + 1, Len(v))]

(***************************************************************************)
(* Register regions of the capability BAR.                                 *)
(***************************************************************************)
\* The match on the offset with the end of the common configuration taken
\* as part of it
RegionOf_inclusive(o) ==
    IF o <= COMMON_CONFIG_BAR_OFFSET + COMMON_CONFIG_SIZE THEN "common"
    ELSE IF ISR_CONFIG_BAR_OFFSET <= o
            /\ o < ISR_CONFIG_BAR_OFFSET + ISR_CONFIG_SIZE THEN "isr"
    ELSE IF DEVICE_CONFIG_BAR_OFFSET <= o
            /\ o < DEVICE_CONFIG_BAR_OFFSET + DEVICE_CONFIG_SIZE THEN "device"
    ELSE IF NOTIFICATION_BAR_OFFSET <= o
            /\ o < NOTIFICATION_BAR_OFFSET + NOTIFICATION_SIZE THEN "notify"
    ELSE "none"

RegionOf(o) ==
    IF o < COMMON_CONFIG_BAR_OFFSET + COMMON_CONFIG_SIZE THEN "common"
    ELSE IF ISR_CONFIG_BAR_OFFSET <= o
            /\ o < ISR_CONFIG_BAR_OFFSET + ISR_CONFIG_SIZE THEN "isr"
    ELSE IF DEVICE_CONFIG_BAR_OFFSET <= o
            /\ o < DEVICE_CONFIG_BAR_OFFSET + DEVICE_CONFIG_SIZE THEN "device"
    ELSE IF NOTIFICATION_BAR_OFFSET <= o
            /\ o < NOTIFICATION_BAR_OFFSET + NOTIFICATION_SIZE THEN "notify"
    ELSE "none"

\* The offset handed to the region's handler
HandlerOffset(o) ==
    CASE RegionOf(o) = "common" -> o - COMMON_CONFIG_BAR_OFFSET
      [] RegionOf(o) = "device" -> o - DEVICE_CONFIG_BAR_OFFSET
      [] OTHER -> o

\* Little-endian value of a byte slice
RECURSIVE LeValue(_)
LeValue(data) ==
    IF data = <<>> THEN 0 ELSE Head(data) + U8 * LeValue(Tail(data))

\* Registers of the common configuration structure (virtio 1.0, 4.1.4.3)
REG_DEVICE_STATUS == 20
REG_QUEUE_SELECT == 22
REG_QUEUE_ENABLE == 28

\* VirtioPciCommonConfig::write(offset, data, queues, device): a byte write
\* of the status register, word writes of queue_select and of the selected
\* queue's enable register; the other registers are not part of the model.
common_config_write(t, off, data) ==
    LET v   == LeValue(data)
        sel == t.queue_select + 1
    IN  CASE Len(data) = 1 /\ off = REG_DEVICE_STATUS ->
                [t EXCEPT !.driver_status = v]
          [] Len(data) = 2 /\ off = REG_QUEUE_SELECT ->
                [t EXCEPT !.queue_select = v]
          [] Len(data) = 2 /\ off = REG_QUEUE_ENABLE /\ sel \in DOMAIN t.queues ->
                [t EXCEPT !.queues[sel].ready = (v = 1)]
          [] OTHER -> t

\* The ISR arm storing 0 instead of clearing the named bits
isr_write_store_zero(t, data) ==
    IF Len(data) > 0
    THEN [t EXCEPT !.interrupt_status = 0]
    ELSE t

\* The ISR arm without the complement: interrupt_status.fetch_and(v)
isr_write_and(t, data) ==
    IF Len(data) > 0
    THEN [t EXCEPT !.interrupt_status = BitAnd(t.interrupt_status, data[1])]
    ELSE t

\* write_bar, the ISR arm: interrupt_status.fetch_and(!(v as usize))
isr_write(t, data) ==
    IF Len(data) > 0
    THEN [t EXCEPT !.interrupt_status = AndNot(t.interrupt_status, data[1])]
    ELSE t

\* write_bar, the match on the offset
write_dispatch(t, offset, data) ==
    CASE RegionOf(offset) = "common" ->
            common_config_write(t, HandlerOffset(offset), data)
      [] RegionOf(offset) = "isr" -> isr_write(t, data)
      [] OTHER -> t

\* The activation step without the test of device_activated
activate_step_again(t, activate_ok) ==
    IF t.driver_status = 15 /\ are_queues_valid(t.memory, t.queues)
    THEN IF t.interrupt_evt # None
         THEN IF activate_ok
              THEN [t EXCEPT
                      !.interrupt_evt = None,
                      !.queue_evts = <<>>,
                      !.device = [interrupt_evt |-> t.interrupt_evt,
                                  queue_evts |-> t.queue_evts],
                      !.device_activated = TRUE,
                      !.activate = "ok"]
              ELSE [t EXCEPT
                      !.interrupt_evt = None,
                      !.queue_evts = <<>>,
                      !.halted = TRUE,
                      !.activate = "err"]
         ELSE t
    ELSE t

\* The activation step taking the interrupt_evt before it looks at the queues
activate_step_take_first(t, activate_ok) ==
    IF ~t.device_activated /\ t.driver_status = 15
    THEN IF t.interrupt_evt # None
         THEN LET taken == [t EXCEPT !.interrupt_evt = None]
                  evts  == split_off(t.queue_evts, 0)
              IN  IF are_queues_valid(t.memory, t.queues) /\ taken.memory # None
                  THEN IF activate_ok
                       THEN [taken EXCEPT
                               !.queue_evts = evts.kept,
                               !.device = [interrupt_evt |-> t.interrupt_evt,
                                           queue_evts |-> evts.off],
                               !.device_activated = TRUE,
                               !.activate = "ok"]
                       ELSE [taken EXCEPT
                               !.queue_evts = evts.kept,
                               !.halted = TRUE,
                               !.activate = "err"]
                  ELSE taken
         ELSE t
    ELSE t

\* The activation step reporting a failed activate() through the FAILED
\* status instead of panicking
activate_step_failed_status(t, activate_ok) ==
    IF ~t.device_activated /\ t.driver_status = 15
       /\ are_queues_valid(t.memory, t.queues)
    THEN IF t.interrupt_evt # None
         THEN LET taken == [t EXCEPT !.interrupt_evt = None]
                  evts  == split_off(t.queue_evts, 0)
              IN  IF taken.memory # None
                  THEN IF activate_ok
                       THEN [taken EXCEPT
                               !.queue_evts = evts.kept,
                               !.device = [interrupt_evt |-> t.interrupt_evt,
                                           queue_evts |-> evts.off],
                               !.device_activated = TRUE,
                               !.activate = "ok"]
                       ELSE [taken EXCEPT
                               !.queue_evts = evts.kept,
                               !.driver_status = 128,
                               !.activate = "err"]
                  ELSE taken
         ELSE t
    ELSE t

\* write_bar, the activation step
activate_step(t, activate_ok) ==
    IF ~t.device_activated /\ is_driver_ready(t.driver_status)
       /\ are_queues_valid(t.memory, t.queues)
    THEN IF t.interrupt_evt # None
         THEN LET taken == [t EXCEPT !.interrupt_evt = None]
                  evts  == split_off(t.queue_evts, 0)
              IN  IF taken.memory # None
                  THEN IF activate_ok
                       THEN [taken EXCEPT
                               !.queue_evts = evts.kept,
                               !.device = [interrupt_evt |-> t.interrupt_evt,
                                           queue_evts |-> evts.off],
                               !.device_activated = TRUE,
                               !.activate = "ok"]
                       ELSE [taken EXCEPT
                               !.queue_evts = evts.kept,
                               !.halted = TRUE,
                               !.activate = "err"]
                  ELSE taken
         ELSE t
    ELSE t

\* The reset step clearing queue_select before it knows the reset's outcome
reset_step_early_select(t, reset_ok) ==
    IF t.device_activated /\ t.driver_status = 0
    THEN IF reset_ok
         THEN [t EXCEPT
                 !.interrupt_evt = t.device.interrupt_evt,
                 !.queue_evts = t.queue_evts \o t.device.queue_evts,
                 !.device = DeviceIdle,
                 !.device_activated = FALSE,
                 !.queues = [i \in DOMAIN t.queues |-> Queue_reset(t.queues[i])],
                 !.queue_select = 0,
                 !.reset = "ok"]
         ELSE [t EXCEPT
                 !.driver_status = 128,
                 !.queue_select = 0,
                 !.reset = "unsupported"]
    ELSE t

\* The reset step clearing device_activated whatever the reset's outcome
reset_step_always_inactive(t, reset_ok) ==
    IF t.device_activated /\ t.driver_status = 0
    THEN IF reset_ok
         THEN [t EXCEPT
                 !.interrupt_evt = t.device.interrupt_evt,
                 !.queue_evts = t.queue_evts \o t.device.queue_evts,
                 !.device = DeviceIdle,
                 !.device_activated = FALSE,
                 !.queues = [i \in DOMAIN t.queues |-> Queue_reset(t.queues[i])],
                 !.queue_select = 0,
                 !.reset = "ok"]
         ELSE [t EXCEPT
                 !.driver_status = 128,
                 !.device_activated = FALSE,
                 !.reset = "unsupported"]
    ELSE t

\* The reset step leaving the queue selection as the driver set it
reset_step_keeps_select(t, reset_ok) ==
    IF t.device_activated /\ t.driver_status = 0
    THEN IF reset_ok
         THEN [t EXCEPT
                 !.interrupt_evt = t.device.interrupt_evt,
                 !.queue_evts = t.queue_evts \o t.device.queue_evts,
                 !.device = DeviceIdle,
                 !.device_activated = FALSE,
                 !.queues = [i \in DOMAIN t.queues |-> Queue_reset(t.queues[i])],
                 !.reset = "ok"]
         ELSE [t EXCEPT
                 !.driver_status = 128,
                 !.reset = "unsupported"]
    ELSE t

\* The reset step without the test of device_activated
reset_step_any(t, reset_ok) ==
    IF t.driver_status = 0
    THEN IF reset_ok
         THEN [t EXCEPT
                 !.interrupt_evt = t.device.interrupt_evt,
                 !.queue_evts = t.queue_evts \o t.device.queue_evts,
                 !.device = DeviceIdle,
                 !.device_activated = FALSE,
                 !.queues = [i \in DOMAIN t.queues |-> Queue_reset(t.queues[i])],
                 !.queue_select = 0,
                 !.reset = "ok"]
         ELSE [t EXCEPT
                 !.driver_status = 128,
                 !.reset = "unsupported"]
    ELSE t

\* The reset step leaving the interrupt_evt slot empty
reset_step_drops_interrupt_evt(t, reset_ok) ==
    IF t.device_activated /\ t.driver_status = 0
    THEN IF reset_ok
         THEN [t EXCEPT
                 !.queue_evts = t.queue_evts \o t.device.queue_evts,
                 !.device = DeviceIdle,
                 !.device_activated = FALSE,
                 !.queues = [i \in DOMAIN t.queues |-> Queue_reset(t.queues[i])],
                 !.queue_select = 0,
                 !.reset = "ok"]
         ELSE [t EXCEPT
                 !.driver_status = 128,
                 !.reset = "unsupported"]
    ELSE t

\* The reset step dropping the notification signals the device returns
reset_step_drops_queue_evts(t, reset_ok) ==
    IF t.device_activated /\ t.driver_status = 0
    THEN IF reset_ok
         THEN [t EXCEPT
                 !.interrupt_evt = t.device.interrupt_evt,
                 !.device = DeviceIdle,
                 !.device_activated = FALSE,
                 !.queues = [i \in DOMAIN t.queues |-> Queue_reset(t.queues[i])],
                 !.queue_select = 0,
                 !.reset = "ok"]
         ELSE [t EXCEPT
                 !.driver_status = 128,
                 !.reset = "unsupported"]
    ELSE t

\* write_bar, the reset step
reset_step(t, reset_ok) ==
    IF t.device_activated /\ is_driver_init(t.driver_status)
    THEN IF reset_ok
         THEN [t EXCEPT
                 !.interrupt_evt = t.device.interrupt_evt,
                 !.queue_evts = t.queue_evts \o t.device.queue_evts,
                 !.device = DeviceIdle,
                 !.device_activated = FALSE,
                 !.queues = [i \in DOMAIN t.queues |-> Queue_reset(t.queues[i])],
                 !.queue_select = 0,
                 !.reset = "ok"]
         ELSE [t EXCEPT
                 !.driver_status = AsU8(DEVICE_FAILED),
                 !.reset = "unsupported"]
    ELSE t

\* write_bar reaches the call of device.activate()
activate_invoked(t) ==
    /\ ~t.device_activated /\ is_driver_ready(t.driver_status)
    /\ are_queues_valid(t.memory, t.queues)
    /\ t.interrupt_evt # None
    /\ t.memory # None

\* write_bar reaches the call of device.reset()
reset_invoked(t) == t.device_activated /\ is_driver_init(t.driver_status)

\* The ISR arm loading the aggregator instead of swapping it with 0
isr_read_load(t, len) ==
    IF len > 0
    THEN [t |-> t, ret |-> t.interrupt_status % 256]
    ELSE [t |-> t, ret |-> -1]

\* read_bar, the ISR arm: interrupt_status.swap(0) as u8 into data[0]
isr_read(t, len) ==
    IF len > 0
    THEN [t |-> [t EXCEPT !.interrupt_status = 0], ret |-> AsU8(t.interrupt_status)]
    ELSE [t |-> t, ret |-> -1]

\* read_bar, the match on the offset; ret is the byte stored in data[0] by
\* the ISR arm, and -1 when that arm left the buffer alone
read_bar_result(t, offset, len) ==
    IF RegionOf(offset) = "isr" THEN isr_read(t, len) ELSE [t |-> t, ret |-> -1]

\* ioeventfds without the notify offset multiplier
ioeventfds_no_multiplier ==
    [k \in 1 .. Len(queue_evts) |->
        <<queue_evts[k],
          configuration.bars[settings_bar].addr + 12288 + (k - 1), k - 1>>]

\* ioeventfds
ioeventfds ==
    LET bar0        == configuration.bars[settings_bar].addr
        notify_base == bar0 + NOTIFICATION_BAR_OFFSET
    IN  [k \in 1 .. Len(queue_evts) |->
            <<queue_evts[k], notify_base + (k - 1) * NOTIFY_OFF_MULTIPLIER, k - 1>>]

(***************************************************************************)
(* allocate_bars.  The allocator hands out consecutive ranges; a step of   *)
(* the function fails when the environment makes it fail (fail_at names    *)
(* the step, 0 for none) or when the BAR register is already in use.       *)
(***************************************************************************)
MmioBase == 4 * CAPABILITY_BAR_SIZE

RECURSIVE RangesSize(_)
RangesSize(al) == IF al = <<>> THEN 0 ELSE Head(al)[2] + RangesSize(Tail(al))

\* SystemAllocator::allocate_mmio_addresses(None, size)
allocate_mmio_addresses(al) == MmioBase + RangesSize(al)

\* Steps of allocate_bars: 1 and 2 allocate and register the capability
\* BAR, 3..7 add the five capabilities, then two steps per device BAR.
CapSteps == 5
AllocSteps == 2 + CapSteps + 2 * Len(get_device_bars)

\* The loop over the device-specific BARs, from the j-th on
RECURSIVE device_bars_from(_, _, _)
device_bars_from(j, r, fail_at) ==
    IF j > Len(get_device_bars)
    THEN [r EXCEPT !.status = "Ok"]
    ELSE LET bar  == get_device_bars[j]
             step == 2 + CapSteps + 2 * (j - 1) + 1
             addr == allocate_mmio_addresses(r.allocator)
         IN  IF fail_at = step
             THEN [r EXCEPT !.status = "IoAllocationFailed", !.arg = bar.size]
             ELSE LET r1 == [r EXCEPT !.allocator = Append(@, <<addr, bar.size>>)]
                  IN  IF fail_at = step + 1 \/ r1.configuration.bars[bar.idx].used
                      THEN [r1 EXCEPT !.status = "IoRegistrationFailed", !.arg = addr]
                      ELSE device_bars_from(j + 1,
                             [r1 EXCEPT
                                !.configuration.bars[bar.idx] =
                                    [used |-> TRUE, addr |-> addr],
                                !.ranges = Append(@, <<addr, bar.size>>)],
                             fail_at)

\* add_pci_capabilities with the error of add_capability ignored
add_pci_capabilities_continue(r, bar, fail_at) ==
    IF fail_at \in 3 .. 2 + CapSteps
    THEN [r EXCEPT !.configuration.caps = @ + (fail_at - 3),
                   !.settings_bar = bar]
    ELSE [r EXCEPT !.configuration.caps = @ + CapSteps,
                   !.settings_bar = bar]

\* add_pci_capabilities(settings_bar): five add_capability calls, then the
\* settings_bar field is set
add_pci_capabilities(r, bar, fail_at) ==
    IF fail_at \in 3 .. 2 + CapSteps
    THEN [r EXCEPT !.configuration.caps = @ + (fail_at - 3),
                   !.status = "CapabilitiesSetup"]
    ELSE [r EXCEPT !.configuration.caps = @ + CapSteps,
                   !.settings_bar = bar]

allocate_bars_result(cfg, al, sb, fail_at) ==
    LET r0   == [configuration |-> cfg, allocator |-> al, settings_bar |-> sb,
                 status |-> "running", arg |-> 0, ranges |-> <<>>]
        addr == allocate_mmio_addresses(al)
    IN  IF fail_at = 1
        THEN [r0 EXCEPT !.status = "IoAllocationFailed", !.arg = CAPABILITY_BAR_SIZE]
        ELSE LET r1 == [r0 EXCEPT
                          !.allocator = Append(@, <<addr, CAPABILITY_BAR_SIZE>>)]
             IN  IF fail_at = 2 \/ cfg.bars[0].used
                 THEN [r1 EXCEPT !.status = "IoRegistrationFailed", !.arg = addr]
                 ELSE LET r2 == [r1 EXCEPT
                                   !.configuration.bars[0] =
                                       [used |-> TRUE, addr |-> addr],
                                   !.ranges = <<<<addr, CAPABILITY_BAR_SIZE>>>>]
                          r3 == add_pci_capabilities(r2, 0, fail_at)
                      IN  IF r3.status # "running"
                          THEN r3
                          ELSE device_bars_from(1, r3, fail_at)

(***************************************************************************)
(* Inputs.                                                                 *)
(***************************************************************************)
\* Offsets into the capability BAR: the registers of the common
\* configuration the model writes, the start of each other region and the
\* first offset past the BAR
Offsets ==
    {REG_DEVICE_STATUS, REG_QUEUE_SELECT, REG_QUEUE_ENABLE,
     4096, 8192, 12288, 16384}

\* Status bytes: INIT, all bits but DRIVER_OK, ready, ready with FAILED set
StatusBytes == {0, 7, 15, 143}

WriteData ==
    {<<>>} \cup {<<b>> : b \in StatusBytes} \cup {<<w, 0>> : w \in 0 .. 1}

\* The writes of the guest: any slice to the status register and to the ISR,
\* words to the queue registers, one byte to each other offset
Writes ==
    {w \in Offsets \X WriteData :
        \/ w[1] \in {REG_DEVICE_STATUS, ISR_CONFIG_BAR_OFFSET}
        \/ w[1] \in {REG_QUEUE_SELECT, REG_QUEUE_ENABLE} /\ Len(w[2]) = 2
        \/ w[1] > ISR_CONFIG_BAR_OFFSET /\ w[2] = <<15>>}

ReadLens == {0, 1}

\* Interrupt causes the activated device raises
IsrBits == {1, 4, 256}

IrqNums == {5, 261}

NoCalls ==
    [offset |-> -1, hoff |-> -1, written |-> -1,
     activate |-> "none", reset |-> "none", after_reset |-> FALSE, ret |-> -1]

\* No successful reset since the last activation
NotReturned == [interrupt_evt |-> None, queue_evts |-> <<>>, irq_count |-> 0]

(***************************************************************************)
(* The state machine.                                                      *)
(***************************************************************************)
Init ==
    /\ common_config = [driver_status |-> 0, queue_select |-> 0]
    /\ device_activated = FALSE
    /\ interrupt_status = 0
    /\ interrupt_evt = None
    /\ queues = [i \in 1 .. NumQueues |-> Queue_new(queue_max_sizes[i])]
    /\ queue_evts = [i \in 1 .. NumQueues |-> i]
    /\ memory = 1
    /\ settings_bar = 0
    /\ configuration = [bars |-> [i \in 0 .. 5 |-> [used |-> FALSE, addr |-> 0]],
                        caps |-> 0, irq_line |-> 0]
    /\ device = DeviceIdle
    /\ allocator = <<>>
    /\ halted = FALSE
    /\ alloc_ret = [status |-> "none", arg |-> 0, ranges |-> <<>>]
    /\ irq_count = 0
    /\ returned = NotReturned
    /\ last = [op |-> "new", handler |-> "none"] @@ NoCalls

\* The transport is being set up or is on the bus: the process runs and
\* allocate_bars, if it ran, did not fail
Online == ~halted /\ alloc_ret.status \in {"none", "Ok"}

\* The capability BAR is mapped, so that the guest's accesses reach
\* read_bar and write_bar
Mapped == ~halted /\ alloc_ret.status = "Ok"

\* assign_irq(irq_evt, irq_num, irq_pin), irq_evt a fresh EventFd
assign_irq(irq_num) ==
    /\ Online
    /\ irq_count < MaxIrqAssign
    /\ irq_count' = irq_count + 1
    /\ configuration' = [configuration EXCEPT !.irq_line = AsU8(irq_num)]
    /\ interrupt_evt' = NumQueues + irq_count + 1
    /\ last' = [op |-> "assign_irq", handler |-> "none"] @@ NoCalls
    /\ UNCHANGED <<common_config, device_activated, interrupt_status, queues,
                   queue_evts, memory, settings_bar, device, allocator, halted,
                   alloc_ret, returned>>

\* allocate_bars(allocator)
allocate_bars(fail_at) ==
    /\ Online
    /\ Len(allocator) < MaxAllocCalls * (1 + Len(get_device_bars))
    /\ LET r == allocate_bars_result(configuration, allocator, settings_bar, fail_at)
       IN  /\ configuration' = r.configuration
           /\ allocator' = r.allocator
           /\ settings_bar' = r.settings_bar
           /\ alloc_ret' = [status |-> r.status, arg |-> r.arg,
                            ranges |-> IF r.status = "Ok" THEN r.ranges ELSE <<>>]
    /\ last' = [op |-> "allocate_bars", handler |-> "none"] @@ NoCalls
    /\ UNCHANGED <<common_config, device_activated, interrupt_status,
                   interrupt_evt, queues, queue_evts, memory, device, halted,
                   irq_count, returned>>

\* read_bar(offset, data), data of the given length
read_bar(offset, len) ==
    /\ Mapped
    /\ LET r == read_bar_result(Cur, offset, len)
       IN  /\ interrupt_status' = r.t.interrupt_status
           /\ last' = [op |-> "read_bar", handler |-> RegionOf(offset),
                       offset |-> offset, hoff |-> HandlerOffset(offset),
                       written |-> -1,
                       activate |-> "none", reset |-> "none",
                       after_reset |-> FALSE, ret |-> r.ret]
    /\ UNCHANGED <<common_config, device_activated, interrupt_evt, queues,
                   queue_evts, memory, settings_bar, configuration, device,
                   allocator, halted, alloc_ret, irq_count, returned>>

\* The byte an ISR write names: data[0] of a write_bar that takes the ISR
\* arm with a non-empty slice, -1 for any other write_bar
IsrWritten(offset, data) ==
    IF RegionOf(offset) = "isr" /\ Len(data) > 0 THEN data[1] ELSE -1

\* What device.activate() and device.reset() may return in a write_bar that
\* invokes them (one value, unused, in a write_bar that does not)
ActivateOutcomes(t) == IF activate_invoked(t) THEN BOOLEAN ELSE {TRUE}

ResetOutcomes(t) == IF reset_invoked(t) THEN BOOLEAN ELSE {TRUE}

\* write_bar running the activation and reset steps only after a write to
\* the common configuration
write_bar_common_only(offset, data) ==
    /\ Mapped
    /\ \E written \in {write_dispatch(Cur, offset, data)} :
       \E activate_ok \in ActivateOutcomes(written) :
       \E activated \in {IF RegionOf(offset) = "common"
                          THEN activate_step(written, activate_ok)
                          ELSE written} :
       \E reset_ok \in ResetOutcomes(activated) :
       \E t \in {IF activated.halted \/ RegionOf(offset) # "common"
                 THEN activated
                 ELSE reset_step(activated, reset_ok)} :
           /\ common_config' = [driver_status |-> t.driver_status,
                                queue_select |-> t.queue_select]
           /\ device_activated' = t.device_activated
           /\ interrupt_status' = t.interrupt_status
           /\ interrupt_evt' = t.interrupt_evt
           /\ queues' = t.queues
           /\ queue_evts' = t.queue_evts
           /\ memory' = t.memory
           /\ device' = t.device
           /\ halted' = t.halted
           /\ returned' =
                 IF t.reset = "ok"
                 THEN [interrupt_evt |-> device.interrupt_evt,
                       queue_evts |-> device.queue_evts,
                       irq_count |-> irq_count]
                 ELSE IF t.activate # "none" THEN NotReturned ELSE returned
           /\ last' = [op |-> "write_bar", handler |-> RegionOf(offset),
                       offset |-> offset, hoff |-> HandlerOffset(offset),
                       written |-> IsrWritten(offset, data),
                       activate |-> t.activate, reset |-> t.reset,
                       after_reset |->
                           (t.activate # "none" /\ returned # NotReturned),
                       ret |-> -1]
    /\ UNCHANGED <<settings_bar, configuration, allocator, alloc_ret, irq_count>>

\* write_bar(offset, data): the match on the offset, the activation step
\* and, unless that panicked, the reset step
write_bar(offset, data) ==
    /\ Mapped
    /\ \E written \in {write_dispatch(Cur, offset, data)} :
       \E activate_ok \in ActivateOutcomes(written) :
       \E activated \in {activate_step(written, activate_ok)} :
       \E reset_ok \in ResetOutcomes(activated) :
       \E t \in {IF activated.halted THEN activated
                 ELSE reset_step(activated, reset_ok)} :
           /\ common_config' = [driver_status |-> t.driver_status,
                                queue_select |-> t.queue_select]
           /\ device_activated' = t.device_activated
           /\ interrupt_status' = t.interrupt_status
           /\ interrupt_evt' = t.interrupt_evt
           /\ queues' = t.queues
           /\ queue_evts' = t.queue_evts
           /\ memory' = t.memory
           /\ device' = t.device
           /\ halted' = t.halted
           /\ returned' =
                 IF t.reset = "ok"
                 THEN [interrupt_evt |-> device.interrupt_evt,
                       queue_evts |-> device.queue_evts,
                       irq_count |-> irq_count]
                 ELSE IF t.activate # "none" THEN NotReturned ELSE returned
           /\ last' = [op |-> "write_bar", handler |-> RegionOf(offset),
                       offset |-> offset, hoff |-> HandlerOffset(offset),
                       written |-> IsrWritten(offset, data),
                       activate |-> t.activate, reset |-> t.reset,
                       after_reset |->
                           (t.activate # "none" /\ returned # NotReturned),
                       ret |-> -1]
    /\ UNCHANGED <<settings_bar, configuration, allocator, alloc_ret, irq_count>>

\* The activated device raises an interrupt cause: fetch_or on its clone of
\* the aggregator
set_interrupt(bit) ==
    /\ Mapped
    /\ device_activated
    /\ interrupt_status' = BitOr(interrupt_status, bit)
    /\ last' = [op |-> "set_interrupt", handler |-> "none"] @@ NoCalls
    /\ UNCHANGED <<common_config, device_activated, interrupt_evt, queues,
                   queue_evts, memory, settings_bar, configuration, device,
                   allocator, halted, alloc_ret, irq_count, returned>>

Next ==
    \/ \E n \in IrqNums : assign_irq(n)
    \/ \E f \in 0 .. AllocSteps : allocate_bars(f)
    \/ \E o \in Offsets, l \in ReadLens : read_bar(o, l)
    \/ \E w \in Writes : write_bar(w[1], w[2])
    \/ \E b \in IsrBits : set_interrupt(b)

(***************************************************************************)
(* The transport accessed at the boundaries of the register regions.       *)
(***************************************************************************)
\* The first and last offset of each region, the offsets next to them and
\* the registers of the common configuration the model writes
RegionOffsets ==
    {0, REG_DEVICE_STATUS, REG_QUEUE_SELECT, REG_QUEUE_ENABLE, 55, 56,
     4095, 4096, 4097, 8191, 8192, 12287, 12288, 16383, 16384}

RegionData == {<<>>, <<1>>, <<15>>, <<1, 0>>}

NextRegions ==
    \/ \E n \in IrqNums : assign_irq(n)
    \/ allocate_bars(0)
    \/ \E o \in RegionOffsets, l \in ReadLens : read_bar(o, l)
    \/ \E o \in RegionOffsets, d \in RegionData : write_bar(o, d)
    \/ set_interrupt(1)

SpecRegions == Init /\ [][NextRegions]_vars

Spec == Init /\ [][Next]_vars

(***************************************************************************)
(* Properties.                                                             *)
(***************************************************************************)
Range(f) == {f[i] : i \in DOMAIN f}

AllQueuesValid == \A i \in DOMAIN queues : Queue_is_valid(queues[i], memory)

\* EventFds held by the transport and by the device
TransportHeld == ({interrupt_evt} \ {None}) \cup Range(queue_evts)
DeviceHeld == ({device.interrupt_evt} \ {None}) \cup Range(device.queue_evts)

\* C1: device.activate() is invoked, and device_activated goes from false
\* to true, only by a write_bar that ends with the driver status exactly
\* 0x0F, every queue valid and the memory handle present.
C1_ActivateOnlyWhenReady ==
    /\ [](last.activate # "none" =>
            /\ last.op = "write_bar"
            /\ common_config.driver_status = 15
            /\ AllQueuesValid
            /\ memory # None)
    /\ [][(~device_activated /\ device_activated') =>
            (last'.op = "write_bar" /\ last'.activate = "ok")]_vars

C1_Witness ==
    /\ last.op = "write_bar" /\ last.activate = "ok"
    /\ device_activated
    /\ common_config.driver_status = 15

\* C2: once device_activated is true no write_bar invokes activate again,
\* and a write_bar that leaves the status ready changes neither
\* device_activated nor the signal handles of either side.
C2_ActivationIdempotent ==
    [][(device_activated /\ last'.op = "write_bar") =>
          /\ last'.activate = "none"
          /\ common_config'.driver_status = 15 =>
                /\ device_activated'
                /\ interrupt_evt' = interrupt_evt
                /\ queue_evts' = queue_evts
                /\ device' = device]_vars

C2_Witness ==
    /\ device_activated
    /\ last.op = "write_bar" /\ last.activate = "none"
    /\ common_config.driver_status = 15
    /\ interrupt_evt # None

\* C3 as stated: a write_bar that ends its register update with the status
\* ready, every queue valid, the memory present and device_activated false
\* invokes activate and sets device_activated, whether or not assign_irq
\* was called before.
C3_Original ==
    [][(/\ ~device_activated
        /\ last'.op = "write_bar"
        /\ common_config'.driver_status = 15
        /\ AllQueuesValid'
        /\ memory' # None
        /\ ~halted') =>
          (last'.activate = "ok" /\ device_activated')]_vars

\* C3, amended: such a write_bar invokes activate when the transport's
\* interrupt_evt slot is occupied as well, and then device_activated is true
\* if activate returned Ok and the process halts if it returned an error;
\* with the slot empty the write invokes nothing.
C3_ActivatesWithInterruptEvt ==
    [][(/\ ~device_activated
        /\ last'.op = "write_bar"
        /\ common_config'.driver_status = 15
        /\ AllQueuesValid'
        /\ memory' # None) =>
          /\ interrupt_evt # None =>
                /\ last'.activate # "none"
                /\ last'.activate = "ok" => device_activated'
                /\ last'.activate = "err" => halted'
          /\ interrupt_evt = None =>
                (last'.activate = "none" /\ ~device_activated')]_vars

C3_Witness ==
    /\ last.op = "write_bar" /\ last.activate = "none"
    /\ ~device_activated /\ ~halted
    /\ common_config.driver_status = 15
    /\ AllQueuesValid
    /\ interrupt_evt = None

\* C4: a write_bar of an activated device that leaves the status at INIT
\* and whose device.reset() succeeds ends with the transport holding the
\* interrupt signal and the notification signals the device returned,
\* device_activated false, every queue at its disabled default and
\* queue_select 0.
C4_ResetRoundTrip ==
    [][(device_activated /\ last'.op = "write_bar" /\ last'.reset = "ok") =>
          /\ common_config'.driver_status = 0
          /\ interrupt_evt' = device.interrupt_evt
          /\ interrupt_evt' # None
          /\ queue_evts' = device.queue_evts
          /\ Len(queue_evts') = Len(queue_max_sizes)
          /\ ~device_activated'
          /\ \A i \in DOMAIN queues' :
                /\ ~queues'[i].ready
                /\ queues'[i].size = queue_max_sizes[i]
          /\ common_config'.queue_select = 0]_vars

C4_Witness ==
    /\ last.op = "write_bar" /\ last.reset = "ok"
    /\ interrupt_evt # None
    /\ Len(queue_evts) = Len(queue_max_sizes)
    /\ common_config.queue_select = 0

\* C5: a write_bar of an activated device that leaves the status at INIT
\* and whose device.reset() reports "unsupported" ends with the status
\* FAILED, device_activated still true, no signal handle moved, no queue
\* and not queue_select changed, and the process running.
C5_ResetUnsupported ==
    [][(device_activated /\ last'.op = "write_bar"
        /\ last'.reset = "unsupported") =>
          /\ common_config'.driver_status = 128
          /\ device_activated'
          /\ interrupt_evt' = interrupt_evt
          /\ queue_evts' = queue_evts
          /\ device' = device
          /\ queues' = queues
          /\ common_config'.queue_select = common_config.queue_select
          /\ ~halted']_vars

C5_Witness ==
    /\ last.op = "write_bar" /\ last.reset = "unsupported"
    /\ common_config.driver_status = 128
    /\ common_config.queue_select = 1
    /\ device_activated

\* C6: device_activated goes from true to false only in a write_bar that
\* invoked device.reset() and got the signals back.
C6_DeactivatedOnlyByReset ==
    [][(device_activated /\ ~device_activated') =>
          (last'.op = "write_bar" /\ last'.reset = "ok")]_vars

C6_Witness ==
    /\ ~device_activated
    /\ last.op = "write_bar" /\ last.reset = "ok"
    /\ device = DeviceIdle

\* C7 as stated: in every reachable state queue_evts has as many entries as
\* queues, which has as many as queue_max_sizes().
C7_Original ==
    ~halted =>
        /\ Len(queue_evts) = Len(queues)
        /\ Len(queues) = Len(queue_max_sizes)

\* C7, amended: queues always has as many entries as queue_max_sizes();
\* queue_evts has as many while the device is not activated, and is empty
\* while it is activated, the device then holding that many.
C7_QueueEvtsLength ==
    ~halted =>
        /\ Len(queues) = Len(queue_max_sizes)
        /\ ~device_activated => Len(queue_evts) = Len(queues)
        /\ device_activated =>
              (Len(queue_evts) = 0 /\ Len(device.queue_evts) = Len(queues))

C7_Witness ==
    /\ ~device_activated
    /\ last.reset = "ok"
    /\ Len(queue_evts) = Len(queues)
    /\ Len(queues) = 2

\* C8 as stated: while device_activated is true the transport's
\* interrupt_evt slot and queue_evts are empty, and no signal is held by
\* both sides.
C8_Original ==
    ~halted =>
        /\ device_activated => (interrupt_evt = None /\ queue_evts = <<>>)
        /\ TransportHeld \cap DeviceHeld = {}

\* C8, amended: while device_activated is true queue_evts is empty and the
\* interrupt_evt slot is empty unless an assign_irq after the activation
\* filled it; no signal is held by both sides; and a signal stops being
\* held only when assign_irq or a successful reset overwrites an occupied
\* interrupt_evt slot.
C8_ExclusiveOwnership ==
    /\ [](~halted =>
            /\ device_activated => queue_evts = <<>>
            /\ TransportHeld \cap DeviceHeld = {})
    /\ [][(device_activated' /\ interrupt_evt' # None) =>
            \/ last'.op = "assign_irq"
            \/ (device_activated /\ interrupt_evt' = interrupt_evt)]_vars
    /\ [][~halted' =>
            ((TransportHeld \cup DeviceHeld) \ {interrupt_evt})
                \subseteq (TransportHeld' \cup DeviceHeld')]_vars

C8_Witness ==
    /\ device_activated
    /\ interrupt_evt = None /\ queue_evts = <<>>
    /\ device.interrupt_evt # None
    /\ Len(device.queue_evts) = Len(queues)

\* The address of the capability BAR, as allocate_bars returned it
CapabilityBarBase == alloc_ret.ranges[1][1]

\* The notification mapping of n queues at a BAR base
NotificationMapping(base, n) ==
    [k \in 1 .. n |-> <<k, base + 12288 + 4 * (k - 1), k - 1>>]

\* C9 as stated: whenever ioeventfds() may be called, before activation,
\* while activated and after a reset, it returns one entry per queue, the
\* i-th being (signal of queue i, A + 0x3000 + 4*i, i).
C9_Original ==
    Mapped =>
        ioeventfds = NotificationMapping(CapabilityBarBase, Len(queue_max_sizes))

\* C9, amended: it returns these entries in every state in which the
\* device is not activated (before activation and after a reset); while
\* the device is activated it returns no entry.
C9_IoeventfdsWhenInactive ==
    Mapped =>
        /\ ~device_activated =>
              ioeventfds =
                  NotificationMapping(CapabilityBarBase, Len(queue_max_sizes))
        /\ device_activated => ioeventfds = <<>>

C9_Witness ==
    /\ Mapped /\ ~device_activated
    /\ last.reset = "ok"
    /\ Len(ioeventfds) = 2
    /\ ioeventfds[2] = <<2, CapabilityBarBase + 12292, 1>>
    /\ CapabilityBarBase # 0

\* C10 as stated: a read_bar at the ISR offset with a non-empty buffer
\* stores the aggregator's value b in data[0] and leaves the aggregator 0.
C10_Original ==
    [][(last'.op = "read_bar" /\ last'.handler = "isr" /\ last'.ret # -1) =>
          (last'.ret = interrupt_status /\ interrupt_status' = 0)]_vars

\* C10, amended: it stores b as u8, the low eight bits of b (b itself when
\* b < 256), and leaves the aggregator 0, so that a read that follows with
\* no set in between returns 0.
C10_IsrReadClear ==
    /\ [][(last'.op = "read_bar" /\ last'.handler = "isr" /\ last'.ret # -1) =>
            /\ last'.ret = interrupt_status % 256
            /\ interrupt_status < 256 => last'.ret = interrupt_status
            /\ interrupt_status' = 0]_vars
    /\ []((last.op = "read_bar" /\ last.handler = "isr" /\ last.ret # -1) =>
            interrupt_status = 0)

C10_Witness ==
    /\ last.op = "read_bar" /\ last.handler = "isr"
    /\ last.ret = 5
    /\ interrupt_status = 0

(***************************************************************************)
(* C11: a write_bar at offset 0x1000 that names the byte v leaves the       *)
(* interrupt aggregator, which held s, at s AND NOT v: the bits of v are    *)
(* cleared and every other bit of s is kept.                                *)
(***************************************************************************)
C11_IsrWriteClear ==
    [][(/\ last'.op = "write_bar"
        /\ last'.offset = ISR_CONFIG_BAR_OFFSET
        /\ last'.written # -1) =>
          interrupt_status' =
              interrupt_status - BitAnd(interrupt_status, last'.written)]_vars

\* An ISR write of 1 that left cause 4 pending
C11_Witness ==
    /\ last.op = "write_bar"
    /\ last.offset = ISR_CONFIG_BAR_OFFSET
    /\ last.written = 1
    /\ interrupt_status = 4

(***************************************************************************)
(* C12: under every interleaving of the device's atomic bit-set operations *)
(* with the transport's ISR reads and writes, no interrupt cause is lost:  *)
(* a bit leaves the aggregator only in an ISR read that returns it or in   *)
(* an ISR write that names it, and a bit the device sets is set            *)
(* afterwards.                                                             *)
(***************************************************************************)
\* The bits of the aggregator a step clears
Cleared == interrupt_status - BitAnd(interrupt_status, interrupt_status')

IsrReadStep ==
    /\ last'.op = "read_bar"
    /\ last'.offset = ISR_CONFIG_BAR_OFFSET
    /\ last'.ret # -1

IsrWriteStep ==
    /\ last'.op = "write_bar"
    /\ last'.offset = ISR_CONFIG_BAR_OFFSET
    /\ last'.written # -1

\* The claim as stated: an ISR read returns every bit it clears
C12_Original ==
    [][/\ Cleared # 0 =>
            \/ IsrReadStep /\ BitAnd(Cleared, last'.ret) = Cleared
            \/ IsrWriteStep /\ BitAnd(Cleared, last'.written) = Cleared
       /\ last'.op = "set_interrupt" =>
            BitAnd(interrupt_status', interrupt_status) = interrupt_status]_vars

\* C12, amended: an ISR read clears the whole aggregator and returns its low
\* eight bits; a cause above bit 7 is cleared without being returned
C12_NoCauseLost ==
    [][/\ Cleared # 0 =>
            \/ /\ IsrReadStep
               /\ interrupt_status' = 0
               /\ last'.ret = interrupt_status % U8
               /\ BitAnd(Cleared % U8, last'.ret) = Cleared % U8
            \/ IsrWriteStep /\ BitAnd(Cleared, last'.written) = Cleared
       /\ last'.op = "set_interrupt" =>
            /\ BitAnd(interrupt_status', interrupt_status) = interrupt_status
            /\ interrupt_status' # 0]_vars

\* Cause 4 returned by the ISR read that cleared it
C12_Witness ==
    /\ last.op = "read_bar"
    /\ last.offset = ISR_CONFIG_BAR_OFFSET
    /\ last.ret = 4
    /\ interrupt_status = 0

(***************************************************************************)
(* C13: read_bar and write_bar route every offset o to exactly one         *)
(* handler: the common configuration iff o < 0x38, the ISR iff o = 0x1000, *)
(* the device configuration iff 0x2000 <= o < 0x3000 (with offset          *)
(* o - 0x2000), the notification no-op iff 0x3000 <= o < 0x4000, and no    *)
(* handler otherwise; only the handler of the offset's region acts.        *)
(***************************************************************************)
C13_RegionRouting ==
    /\ [](last.op \in {"read_bar", "write_bar"} =>
            /\ last.handler \in {"common", "isr", "device", "notify", "none"}
            /\ last.handler = "common" <=> last.offset < 56
            /\ last.handler = "isr" <=> last.offset = 4096
            /\ last.handler = "device" <=>
                   (8192 <= last.offset /\ last.offset < 12288)
            /\ last.handler = "device" => last.hoff = last.offset - 8192
            /\ last.handler = "common" => last.hoff = last.offset
            /\ last.handler = "notify" <=>
                   (12288 <= last.offset /\ last.offset < 16384)
            /\ last.handler = "none" <=>
                   \/ 56 <= last.offset /\ last.offset < 4096
                   \/ 4096 < last.offset /\ last.offset < 8192
                   \/ 16384 <= last.offset)
    /\ [][last'.op \in {"read_bar", "write_bar"} =>
            /\ interrupt_status' # interrupt_status => last'.offset = 4096
            /\ (last'.offset >= 56 /\ last'.reset = "none") =>
                   common_config' = common_config /\ queues' = queues
            /\ last'.op = "read_bar" =>
                   common_config' = common_config /\ queues' = queues]_vars

\* An access just past the ISR byte that left a pending cause alone
C13_Witness ==
    /\ last.op \in {"read_bar", "write_bar"}
    /\ last.offset = 4097
    /\ last.handler = "none"
    /\ interrupt_status # 0

(***************************************************************************)
(* C14: after a successful reset the device is re-armed: a later write_bar *)
(* that leaves the status ready with every queue valid activates the       *)
(* device again, and that activation receives the interrupt signal and the *)
(* n notification signals the reset returned.                              *)
(***************************************************************************)
\* A write_bar after a successful reset, with no activation in between, that
\* leaves the driver ready and the queues valid
RearmStep ==
    /\ returned # NotReturned
    /\ ~device_activated
    /\ last'.op = "write_bar"
    /\ common_config'.driver_status = 15
    /\ AllQueuesValid'

\* The claim as stated: the activation receives the signals of the reset
C14_Original ==
    [][RearmStep =>
          /\ last'.activate # "none"
          /\ last'.activate = "ok" =>
                /\ device_activated'
                /\ device'.interrupt_evt = returned.interrupt_evt
                /\ device'.queue_evts = returned.queue_evts
                /\ Len(device'.queue_evts) = NumQueues]_vars

\* C14, amended: the activation receives the notification signals of the
\* reset and the interrupt signal in the transport's slot, which is the one
\* of the reset unless assign_irq replaced it since
C14_Rearmed ==
    [][RearmStep =>
          /\ last'.activate # "none"
          /\ last'.after_reset
          /\ last'.activate = "ok" =>
                /\ device_activated'
                /\ device'.queue_evts = returned.queue_evts
                /\ Len(device'.queue_evts) = NumQueues
                /\ device'.interrupt_evt = interrupt_evt
                /\ irq_count = returned.irq_count =>
                       device'.interrupt_evt = returned.interrupt_evt
                /\ irq_count # returned.irq_count =>
                       device'.interrupt_evt # returned.interrupt_evt]_vars

\* The second activation, holding the first interrupt signal again
C14_Witness ==
    /\ last.op = "write_bar" /\ last.activate = "ok" /\ last.after_reset
    /\ device_activated
    /\ device.interrupt_evt = NumQueues + 1
    /\ Len(device.queue_evts) = NumQueues

(***************************************************************************)
(* C15: allocate_bars allocates and registers the capability BAR, adds the *)
(* capabilities, then allocates and registers each device BAR; it returns  *)
(* the 1 + k ranges, the first one (capability BAR address, 0x4000), only  *)
(* if every step succeeds; at the first failing step it returns that       *)
(* step's error, performs no later step and releases no region.            *)
(***************************************************************************)
\* Regions allocated, BARs registered and capabilities added by a step
NewRegions == Len(allocator') - Len(allocator)
NewBars ==
    Cardinality({i \in DOMAIN configuration.bars :
                    configuration'.bars[i].used /\ ~configuration.bars[i].used})
NewCaps == configuration'.caps - configuration.caps

C15_AllocateBars ==
    [][last'.op = "allocate_bars" =>
        /\ NewRegions >= 0
        /\ SubSeq(allocator', 1, Len(allocator)) = allocator
        /\ \A i \in DOMAIN configuration.bars :
              configuration.bars[i].used =>
                  configuration'.bars[i] = configuration.bars[i]
        /\ alloc_ret'.status \in
              {"Ok", "IoAllocationFailed", "IoRegistrationFailed",
               "CapabilitiesSetup"}
        /\ alloc_ret'.status = "Ok" =>
              /\ NewRegions = 1 + Len(get_device_bars)
              /\ NewBars = 1 + Len(get_device_bars)
              /\ NewCaps = 5
              /\ settings_bar' = 0
              /\ Len(alloc_ret'.ranges) = 1 + Len(get_device_bars)
              /\ alloc_ret'.ranges =
                    SubSeq(allocator', Len(allocator) + 1, Len(allocator'))
              /\ alloc_ret'.ranges[1] = <<configuration'.bars[0].addr, 16384>>
              /\ \A j \in DOMAIN get_device_bars :
                    alloc_ret'.ranges[1 + j] =
                        <<configuration'.bars[get_device_bars[j].idx].addr,
                          get_device_bars[j].size>>
        /\ alloc_ret'.status # "Ok" => alloc_ret'.ranges = <<>>
        /\ alloc_ret'.status = "IoAllocationFailed" =>
              /\ NewRegions <= Len(get_device_bars)
              /\ alloc_ret'.arg =
                    IF NewRegions = 0 THEN 16384
                    ELSE get_device_bars[NewRegions].size
              /\ NewBars = NewRegions
              /\ NewCaps = IF NewRegions = 0 THEN 0 ELSE 5
        /\ alloc_ret'.status = "IoRegistrationFailed" =>
              /\ NewRegions >= 1
              /\ alloc_ret'.arg = allocator'[Len(allocator')][1]
              /\ NewBars = NewRegions - 1
              /\ NewCaps = IF NewRegions = 1 THEN 0 ELSE 5
        /\ alloc_ret'.status = "CapabilitiesSetup" =>
              /\ NewRegions = 1
              /\ NewBars = 1
              /\ NewCaps < 5
              /\ settings_bar' = settings_bar]_vars

\* The registration of the device BAR failed: both regions stay allocated
C15_Witness ==
    /\ last.op = "allocate_bars"
    /\ alloc_ret.status = "IoRegistrationFailed"
    /\ alloc_ret.ranges = <<>>
    /\ Len(allocator) = 2
    /\ configuration.bars[0].used
    /\ configuration.caps = 5

(***************************************************************************)
(* C16: the activation and reset steps run after every write_bar, whatever *)
(* the offset: a write to the ISR, the device configuration, the           *)
(* notification range or an unmatched offset activates the device if the   *)
(* activation conditions hold at that moment, resets it if it is activated *)
(* with the status at INIT, and invokes neither entry point otherwise.     *)
(***************************************************************************)
C16_AnyOffsetActivates ==
    [][(last'.op = "write_bar" /\ last'.handler # "common") =>
          /\ last'.activate # "none" <=>
                /\ ~device_activated
                /\ common_config.driver_status = 15
                /\ AllQueuesValid
                /\ interrupt_evt # None
                /\ memory # None
          /\ last'.activate = "ok" => device_activated'
          /\ last'.reset # "none" <=>
                (device_activated /\ common_config.driver_status = 0)]_vars

\* The device activated by a write to the notification range
C16_Witness ==
    /\ last.op = "write_bar" /\ last.handler = "notify"
    /\ last.activate = "ok"
    /\ device_activated

(***************************************************************************)
(* C17: if device.activate() returns an error, the write_bar that called   *)
(* it halts the process: no later operation of the transport executes,     *)
(* device_activated is never true for that activation and the driver       *)
(* status is not changed to FAILED.                                        *)
(***************************************************************************)
C17_ActivateErrorHalts ==
    /\ [][last'.activate = "err" =>
            /\ halted'
            /\ ~device_activated'
            /\ common_config'.driver_status = 15
            /\ device' = device]_vars
    /\ [][~halted]_vars
    /\ [](halted => (last.op = "write_bar" /\ last.activate = "err"))

\* The process halted by a failed activation
C17_Witness ==
    /\ halted
    /\ last.op = "write_bar" /\ last.activate = "err"
    /\ ~device_activated
    /\ common_config.driver_status = 15

(***************************************************************************)
(* C18: a single write_bar never invokes both device.activate() and        *)
(* device.reset(): the activation needs the status 0x0F, the reset needs   *)
(* the status 0, and the status is not modified between the two tests.     *)
(***************************************************************************)
C18_NeverActivateAndReset ==
    last.op = "write_bar" =>
        /\ ~(last.activate # "none" /\ last.reset # "none")
        /\ last.activate # "none" => common_config.driver_status = 15
        /\ last.reset = "ok" => common_config.driver_status = 0
        /\ last.reset = "unsupported" => common_config.driver_status = 128

\* A write_bar that reset the device and did not activate it
C18_Witness ==
    /\ last.op = "write_bar"
    /\ last.reset = "ok" /\ last.activate = "none"
    /\ ~device_activated
    /\ AllQueuesValid = FALSE

(***************************************************************************)
(* C19: the interrupt signal is never consumed without being handed to the *)
(* device: once assign_irq has been called, the interrupt_evt slot of an   *)
(* inactive device is occupied, and the slot is emptied only by a          *)
(* write_bar that calls device.activate() with the signal.                 *)
(***************************************************************************)
C19_InterruptEvtNotLost ==
    /\ []((~halted /\ irq_count > 0 /\ ~device_activated) =>
             interrupt_evt # None)
    /\ [][(interrupt_evt # None /\ interrupt_evt' = None) =>
             /\ last'.op = "write_bar"
             /\ last'.activate # "none"
             /\ last'.activate = "ok" =>
                   device'.interrupt_evt = interrupt_evt]_vars

\* The slot emptied by the activation that handed the signal to the device
C19_Witness ==
    /\ irq_count > 0
    /\ last.op = "write_bar" /\ last.activate = "ok"
    /\ interrupt_evt = None
    /\ device.interrupt_evt # None

(***************************************************************************)
(* C20: device.reset() is invoked only by a write_bar of an activated      *)
(* device that leaves the status at 0; a write_bar leaving the status 0    *)
(* while the device is inactive invokes neither reset nor activate and     *)
(* leaves device_activated, interrupt_evt and queue_evts unchanged; no     *)
(* read_bar invokes activate or reset or changes device_activated or the   *)
(* signal handles.                                                         *)
(***************************************************************************)
C20_ResetOnlyWhenActivated ==
    [][/\ last'.reset # "none" =>
             /\ last'.op = "write_bar"
             /\ device_activated
             /\ last'.reset = "ok" => common_config'.driver_status = 0
             /\ last'.reset = "unsupported" =>
                   common_config'.driver_status = 128
       /\ (/\ last'.op = "write_bar"
           /\ ~device_activated
           /\ common_config'.driver_status = 0) =>
             /\ last'.reset = "none" /\ last'.activate = "none"
             /\ UNCHANGED <<device_activated, interrupt_evt, queue_evts, device>>
       /\ last'.op = "read_bar" =>
             /\ last'.reset = "none" /\ last'.activate = "none"
             /\ UNCHANGED <<device_activated, interrupt_evt, queue_evts, device,
                            common_config, queues>>]_vars

\* A status write of 0 to an inactive device holding its signals
C20_Witness ==
    /\ last.op = "write_bar" /\ last.offset = REG_DEVICE_STATUS
    /\ last.reset = "none" /\ last.activate = "none"
    /\ common_config.driver_status = 0
    /\ ~device_activated
    /\ interrupt_evt # None
    /\ Len(queue_evts) = NumQueues

====
